---- MODULE Spec2Model ----
(***************************************************************************)
(* PdfViewer (src/components/pdf/PdfViewer.tsx) with its ImageUploader:    *)
(* the React state of the component, the two persistence backends          *)
(* (localStorage for notes/progress, localforage for image attachments)    *)
(* and the asynchronous work in flight (identity resolution, the document  *)
(* load of the rendering component, image load/add/remove).                *)
(*                                                                         *)
(* One action is one task of the browser's event loop: an event handler or *)
(* the continuation of an await, together with the re-renders and the      *)
(* passive effects it triggers, run until no dependency changes (Commit).  *)
(***************************************************************************)
EXTENDS Integers, Sequences, FiniteSets, Bags, TLC

(***************************************************************************)
(* Bounds of the model.                                                    *)
(***************************************************************************)
MaxPages == 2        \* page count of the longest document
MaxSelect == 3       \* source selections (drops and accepted URLs) in a run of Spec
MaxSwitch == 2       \* source selections in a run of SpecUrl, SpecNotes, SpecSwitch
Once == 1            \* source selections in a run of SpecImages; every budget of SpecAll
MaxEdits == 2        \* note edits (page note or global note) in a run
MaxAdds == 2         \* addImage calls in a run
MaxRemoves == 1      \* removeImage calls in a run
MaxReloads == 1      \* times the page is reloaded (the component mounted anew)
MaxTasks == 2        \* image-store calls (load, add, remove) in flight at once
MaxResolving == 2    \* computeId calls in flight at once
FineUnits == 1000    \* parts of a hundredth in which a floating-point sum is told apart
MaxError == 1        \* rounding error of a floating-point sum, in those parts

(***************************************************************************)
(* The zoom scale, in hundredths.                                          *)
(***************************************************************************)
InitialScale == 120  \* useState<number>(1.2)
MinScale == 50       \* Math.max(0.5, ...)
MaxScale == 300      \* Math.min(3, ...)
ZoomStep == 10       \* s - 0.1, s + 0.1

(***************************************************************************)
(* Data: files, texts, URL inputs.                                         *)
(***************************************************************************)
\* A string is a sequence of tokens; a token stands for a run of characters.
Blank == " "

\* PDF files the user can drop: bytes (named by a letter) and a file name.
PdfFiles == {[bytes |-> "A", name |-> <<"a.pdf">>], [bytes |-> "B", name |-> <<"b.pdf">>]}

\* The text a note field can hold.
Texts == {<<>>, <<"x">>, <<"y">>}

\* What the user can type in the URL field.
GoodUrl == <<"https://", "example.com", "/book", ".pdf">>
UrlInputs ==
    { <<>>,
      <<Blank>>,
      <<"not", Blank, "a", Blank, "url">>,
      <<"https://", "example.com", "/book">>,
      <<"https://", "example.com", "/book", ".pdf", ".html">>,
      GoodUrl,
      <<Blank>> \o GoodUrl \o <<Blank>>,
      <<"https://", "example.com", "/book", ".PDF", "?", "q=1">> }

\* Image files the picker can hand over, and one file that is no image.
ImageFiles == {[bytes |-> "P", type |-> "image/png"], [bytes |-> "Q", type |-> "text/plain"]}
Captions == {<<"cat">>, <<Blank, "cat", Blank>>}

\* String.prototype.trim
RECURSIVE TrimLeft(_)
TrimLeft(s) == IF s # <<>> /\ Head(s) = Blank THEN TrimLeft(Tail(s)) ELSE s
RECURSIVE TrimRight(_)
TrimRight(s) ==
    IF s # <<>> /\ s[Len(s)] = Blank THEN TrimRight(SubSeq(s, 1, Len(s) - 1)) ELSE s
Trim(s) == TrimRight(TrimLeft(s))

\* new URL(url): throws unless the string is scheme, host, then path and
\* query without white space; pathname is the part before "?".
Schemes == {"https://", "http://"}
Hosts == {"example.com"}
QueryAt(s) ==
    IF \E i \in 1..Len(s) : s[i] = "?"
    THEN CHOOSE i \in 1..Len(s) : s[i] = "?" /\ \A j \in 1..(i - 1) : s[j] # "?"
    ELSE Len(s) + 1
ParseURL(s) ==
    IF /\ Len(s) >= 2
       /\ s[1] \in Schemes
       /\ s[2] \in Hosts
       /\ \A i \in 1..Len(s) : s[i] # Blank
    THEN [ok |-> TRUE,
          pathname |-> IF QueryAt(s) <= 3 THEN <<"/">> ELSE SubSeq(s, 3, QueryAt(s) - 1)]
    ELSE [ok |-> FALSE, pathname |-> <<>>]

\* /\.pdf($|\?)/i.test(pathname)
LowerCase(t) == IF t = ".PDF" THEN ".pdf" ELSE t
\* A slip: /\.pdf/i, the end of the path not required
LooksLikePdfAnywhere(pathname) ==
    \E i \in 1..Len(pathname) : LowerCase(pathname[i]) = ".pdf"
LooksLikePdf(pathname) ==
    \E i \in 1..Len(pathname) :
        /\ LowerCase(pathname[i]) = ".pdf"
        /\ (i = Len(pathname) \/ pathname[i + 1] = "?")

\* crypto.subtle.digest("SHA-256", bytes) as hex: injective on the bytes.
Sha256Hex(bytes) == <<"sha256", bytes>>

(***************************************************************************)
(* Document identifiers (the docId state, the key namespace of the stores).*)
(***************************************************************************)
NoDoc == <<>>                                   \* docId === ""
UrlId(url) == <<"url:", url>>                   \* `url:${source.url}`
FileId(hashHex) == <<"file:", hashHex>>         \* `file:${hashHex}`
FallbackId(name) == <<"file:", name>>           \* `file:${source.file.name}`

DocIds ==
    {NoDoc}
    \cup {FileId(Sha256Hex(f.bytes)) : f \in PdfFiles}
    \cup {FallbackId(f.name) : f \in PdfFiles}
    \cup {UrlId(Trim(u)) : u \in {v \in UrlInputs : /\ ParseURL(Trim(v)).ok
                                                   /\ LooksLikePdf(ParseURL(Trim(v)).pathname)}}

\* Source: { kind: "empty" } | { kind: "file", file } | { kind: "url", url }
NoFile == [bytes |-> "", name |-> <<>>]
EmptySource == [kind |-> "empty", file |-> NoFile, url |-> <<>>]
FileSource(f) == [kind |-> "file", file |-> f, url |-> <<>>]
UrlSource(u) == [kind |-> "url", file |-> NoFile, url |-> u]

\* What the rendering component reports as numPages for a document.
PageCount(src) ==
    IF src.kind = "file" /\ src.file.bytes = "B" THEN MaxPages - 1 ELSE MaxPages
Pages == 1..MaxPages

(***************************************************************************)
(* State.                                                                  *)
(***************************************************************************)
VARIABLES
    source,        \* useState<Source>
    numPages,      \* useState<number | null>; 0 stands for null
    pageNumber,    \* useState<number>
    error,         \* useState<string>
    docId,         \* useState<string>
    pageNote,      \* useState<string>
    globalNote,    \* useState<string>
    images,        \* useState<Array<{id, page, caption, url}>>
    localStorage,  \* the record stored under `pdf:${docId}:state`, per docId
    imageMeta,     \* localforage: the value under `pdf:${docId}:images:meta`, per docId
    imageBlobs,    \* localforage: the entries `pdf:${docId}:image:${id}`
    resolving,     \* computeId calls awaiting arrayBuffer()/digest(): a bag of sources
    docLoad,       \* the rendering component: "none", "loading", "loaded", "failed"
    tasks,         \* loadImages/addImage/removeImage calls in flight: a bag of tasks
    clock,         \* Date.now()
    scale,         \* useState<number>, in hundredths: 120 stands for 1.2
    objectURLs,    \* the attachment ids with a URL of URL.createObjectURL not revoked
    accessed,      \* history: the docIds whose store keys were read or written
    restored,      \* history: lastPage the state-load effect read since the latest
                   \* selection (0: none)
    navigated,     \* history: a page button was clicked since the latest selection
    used           \* history: how many selections, note edits, adds, removes, reloads so far

vars ==
    <<source, numPages, pageNumber, error, docId, pageNote, globalNote, images,
      localStorage, imageMeta, imageBlobs, resolving, docLoad, tasks, clock,
      scale, objectURLs, accessed, restored, navigated, used>>

(***************************************************************************)
(* Notes/progress records in localStorage.                                 *)
(***************************************************************************)
Undefined == <<"undefined">>       \* a key the JSON object does not have

NoNotes == [p \in Pages |-> Undefined]
\* localStorage.getItem(...) === null
AbsentRecord ==
    [raw |-> "null", lastPage |-> 0, globalNote |-> Undefined, pageNotes |-> NoNotes]
\* raw ? JSON.parse(raw) : {}
EmptyObject == [AbsentRecord EXCEPT !.raw = "json"]

\* A slip: the note field is cleared on a page change, the record not looked up
NoteOfNone(parsed, page) == <<>>
\* parsed.pageNotes?.[String(pageNumber)] ?? ""
NoteOf(parsed, page) ==
    IF parsed.pageNotes[page] = Undefined THEN <<>> ELSE parsed.pageNotes[page]

\* The state of the component and of its environment as one record: what a
\* render closes over (the React state) and what effects read and write.
Current ==
    [source |-> source, numPages |-> numPages, pageNumber |-> pageNumber,
     error |-> error, docId |-> docId, pageNote |-> pageNote,
     globalNote |-> globalNote, images |-> images,
     localStorage |-> localStorage, resolving |-> resolving, tasks |-> tasks,
     accessed |-> accessed, restored |-> restored]

\* A loadImages call: awaiting the metadata list ("meta"), then one payload
\* per item of `todo` ("blobs"), collecting `loaded`.
NoItem == [id |-> <<>>, page |-> 0, caption |-> <<>>]
LoadTask(d) ==
    [op |-> "load", docId |-> d, pc |-> "meta", item |-> NoItem, bytes |-> "",
     type |-> "", todo |-> <<>>, loaded |-> <<>>, wroteBlob |-> FALSE,
     wroteMeta |-> FALSE, alone |-> TRUE, before |-> <<>>]

(***************************************************************************)
(* The effects, in the order the component declares them.  `c` is the      *)
(* render the effect closes over; `n` accumulates the state updates the    *)
(* effects queue and the store writes they make.                           *)
(***************************************************************************)
\* useEffect(..., [source]): computeId up to its first await
computeId(c, n) ==
    CASE c.source.kind = "url" -> [n EXCEPT !.docId = UrlId(c.source.url)]
      [] c.source.kind = "file" ->
            [n EXCEPT !.resolving = n.resolving (+) SetToBag({c.source})]
      [] OTHER -> [n EXCEPT !.docId = NoDoc]

\* useEffect(..., [docId]): load persisted state
loadState(c, n) ==
    IF c.docId = NoDoc THEN n
    ELSE LET parsed == n.localStorage[c.docId]
             m == [n EXCEPT !.accessed = n.accessed \cup {c.docId}]
         IN CASE parsed.raw = "null" ->
                    [m EXCEPT !.pageNote = <<>>, !.globalNote = <<>>, !.restored = 0]
              [] parsed.raw = "corrupt" -> [m EXCEPT !.restored = 0]
              [] OTHER ->
                    [m EXCEPT
                        !.pageNumber =
                            IF parsed.lastPage # 0 THEN parsed.lastPage ELSE n.pageNumber,
                        !.globalNote =
                            IF parsed.globalNote \notin {Undefined, <<>>}
                            THEN parsed.globalNote ELSE n.globalNote,
                        !.pageNote = NoteOf(parsed, c.pageNumber),
                        !.restored = parsed.lastPage]

\* A slip: { lastPage: pageNumber }, the rest of the record dropped
onlyLastPage(parsed, page) == [EmptyObject EXCEPT !.lastPage = page]
\* The record the effect stores: { ...parsed, lastPage: pageNumber }
withLastPage(parsed, page) == [parsed EXCEPT !.lastPage = page]

\* useEffect(..., [docId, pageNumber]): persist lastPage, show the page's note
persistLastPage(c, n) ==
    IF c.docId = NoDoc THEN n
    ELSE LET stored == n.localStorage[c.docId]
             m == [n EXCEPT !.accessed = n.accessed \cup {c.docId}]
         IN IF stored.raw = "corrupt" THEN m
            ELSE LET parsed == IF stored.raw = "null" THEN EmptyObject ELSE stored
                     next == withLastPage(parsed, c.pageNumber)
                 IN [m EXCEPT !.localStorage[c.docId] = next,
                              !.pageNote = NoteOf(next, c.pageNumber)]

\* useEffect(..., [docId]): loadImages up to its first await
loadImages(c, n) ==
    IF c.docId = NoDoc THEN n
    ELSE [n EXCEPT !.tasks = n.tasks (+) SetToBag({LoadTask(c.docId)})]

\* One render's effects: those whose dependencies differ from the previous
\* render's (`prev`); `newSource` says the handler called setSource.
RunEffects(c, prev, newSource) ==
    LET docChanged == c.docId # prev.docId
        pageChanged == c.pageNumber # prev.pageNumber
        n1 == IF newSource THEN computeId(c, c) ELSE c
        n2 == IF docChanged THEN loadState(c, n1) ELSE n1
        n3 == IF docChanged \/ pageChanged THEN persistLastPage(c, n2) ELSE n2
        n4 == IF docChanged THEN loadImages(c, n3) ELSE n3
    IN n4

\* Render, run the effects, and render again while they changed a dependency.
RECURSIVE Commit(_, _, _)
Commit(c, prev, newSource) ==
    LET n == RunEffects(c, prev, newSource)
    IN IF n.docId = c.docId /\ n.pageNumber = c.pageNumber THEN n
       ELSE Commit(n, c, FALSE)

\* The state after an update: `c` is the state the handler left.
Settle(c, newSource) == Commit(c, Current, newSource)

Within(r) ==
    /\ BagCardinality(r.tasks) <= MaxTasks
    /\ BagCardinality(r.resolving) <= MaxResolving

Becomes(r) ==
    /\ Within(r)
    /\ source' = r.source
    /\ numPages' = r.numPages
    /\ pageNumber' = r.pageNumber
    /\ error' = r.error
    /\ docId' = r.docId
    /\ pageNote' = r.pageNote
    /\ globalNote' = r.globalNote
    /\ images' = r.images
    /\ localStorage' = r.localStorage
    /\ resolving' = r.resolving
    /\ tasks' = r.tasks
    /\ accessed' = r.accessed
    /\ restored' = r.restored

(***************************************************************************)
(* Construction: the component as mounted, over stores that hold nothing.  *)
(***************************************************************************)
NoImages == [present |-> FALSE, items |-> <<>>]   \* getItem(metaKey) === null

Init ==
    /\ source = EmptySource
    /\ numPages = 0
    /\ pageNumber = 1
    /\ error = ""
    /\ docId = NoDoc
    /\ pageNote = <<>>
    /\ globalNote = <<>>
    /\ images = <<>>
    /\ localStorage = [d \in DocIds |-> AbsentRecord]
    /\ imageMeta = [d \in DocIds |-> NoImages]
    /\ imageBlobs = {}
    /\ resolving = EmptyBag
    /\ docLoad = "none"
    /\ tasks = EmptyBag
    /\ clock = 0
    /\ scale = InitialScale
    /\ objectURLs = {}
    /\ accessed = {}
    /\ restored = 0
    /\ navigated = FALSE
    /\ used = [select |-> 0, edits |-> 0, adds |-> 0, removes |-> 0, reloads |-> 0]

(***************************************************************************)
(* Source selection and identity.                                          *)
(***************************************************************************)
\* The rendering component loads anew when its `file` prop changes: a File
\* object is always a new one, a URL is compared as a string.
Reloads(old, new) == new.kind = "file" \/ old.kind # "url" \/ old.url # new.url

\* onDrop(acceptedFiles) of the drop zone; acceptedFiles holds at most one file
onDrop(acceptedFiles) ==
    IF acceptedFiles # <<>>
    THEN /\ Becomes(Settle([Current EXCEPT !.source = FileSource(acceptedFiles[1]),
                                           !.error = "",
                                           !.pageNumber = 1,
                                           !.restored = 0], TRUE))
         /\ docLoad' = "loading"
         /\ navigated' = FALSE
         /\ used' = [used EXCEPT !.select = @ + 1]
         /\ UNCHANGED <<scale, objectURLs, imageMeta, imageBlobs, clock>>
    ELSE UNCHANGED vars

\* What loadFromUrl leaves in the React state, before any effect runs.
UrlInvalid == "URL invalida."
NotAPdf == "O link nao parece ser um PDF."
loadFromUrlState(c, input) ==
    LET url == Trim(input)
        parsed == ParseURL(url)
    IN CASE url = <<>> -> c
         [] ~parsed.ok -> [c EXCEPT !.error = UrlInvalid]
         [] ~LooksLikePdf(parsed.pathname) -> [c EXCEPT !.error = NotAPdf]
         [] OTHER -> [c EXCEPT !.source = UrlSource(url), !.error = "", !.pageNumber = 1,
                               !.restored = 0]

Accepted(input) ==
    /\ Trim(input) # <<>>
    /\ ParseURL(Trim(input)).ok
    /\ LooksLikePdf(ParseURL(Trim(input)).pathname)

\* loadFromUrl(input): Enter in the URL field, or the "Abrir" button
loadFromUrl(input) ==
    /\ Becomes(Settle(loadFromUrlState(Current, input), Accepted(input)))
    /\ docLoad' = IF Accepted(input) /\ Reloads(source, UrlSource(Trim(input)))
                  THEN "loading" ELSE docLoad
    /\ navigated' = IF Accepted(input) THEN FALSE ELSE navigated
    /\ used' = IF Accepted(input) THEN [used EXCEPT !.select = @ + 1] ELSE used
    /\ UNCHANGED <<scale, objectURLs, imageMeta, imageBlobs, clock>>

\* computeId after its awaits: the digest of the file's bytes, or, when
\* arrayBuffer() or digest() rejected, the file's name.
computeIdResolved(src, hashed) ==
    /\ BagIn(src, resolving)
    /\ Becomes(Settle([Current EXCEPT
            !.resolving = resolving (-) SetToBag({src}),
            !.docId = IF hashed THEN FileId(Sha256Hex(src.file.bytes))
                      ELSE FallbackId(src.file.name)], FALSE))
    /\ UNCHANGED <<scale, objectURLs, imageMeta, imageBlobs, docLoad, clock, navigated, used>>

\* onDocumentLoadSuccess({numPages}) of the rendering component
onDocumentLoadSuccess ==
    /\ docLoad = "loading"
    /\ Becomes(Settle([Current EXCEPT !.numPages = PageCount(source),
                                      !.pageNumber = 1], FALSE))
    /\ docLoad' = "loaded"
    /\ UNCHANGED <<scale, objectURLs, imageMeta, imageBlobs, clock, navigated, used>>

\* onLoadError of the rendering component
LoadFailed == "Falha ao carregar o PDF"
onLoadError ==
    /\ docLoad = "loading"
    /\ Becomes(Settle([Current EXCEPT !.error = LoadFailed], FALSE))
    /\ docLoad' = "failed"
    /\ UNCHANGED <<scale, objectURLs, imageMeta, imageBlobs, clock, navigated, used>>

(***************************************************************************)
(* Page navigation.                                                        *)
(***************************************************************************)
canPrev == pageNumber > 1
canNext == IF numPages # 0 THEN pageNumber < numPages ELSE FALSE

Max(a, b) == IF a >= b THEN a ELSE b
Min(a, b) == IF a <= b THEN a ELSE b

\* setPageNumber((p) => Math.max(1, p - 1))
previousPageOf(p) == Max(1, p - 1)
\* setPageNumber((p) => (numPages ? Math.min(numPages, p + 1) : p + 1))
nextPageOf(p) == IF numPages # 0 THEN Min(numPages, p + 1) ELSE p + 1

\* "Pagina anterior", disabled unless canPrev
previousPage ==
    /\ canPrev
    /\ Becomes(Settle([Current EXCEPT !.pageNumber = previousPageOf(pageNumber)], FALSE))
    /\ navigated' = TRUE
    /\ UNCHANGED <<scale, objectURLs, imageMeta, imageBlobs, docLoad, clock, used>>

\* "Proxima pagina", disabled unless canNext
nextPage ==
    /\ canNext
    /\ Becomes(Settle([Current EXCEPT !.pageNumber = nextPageOf(pageNumber)], FALSE))
    /\ navigated' = TRUE
    /\ UNCHANGED <<scale, objectURLs, imageMeta, imageBlobs, docLoad, clock, used>>

(***************************************************************************)
(* Notes.                                                                  *)
(***************************************************************************)
\* A slip: pageNotes: { [page]: value }, the other pages' notes dropped
onlyPageNote(parsed, page, value) ==
    [parsed EXCEPT !.pageNotes = [NoNotes EXCEPT ![page] = value]]
\* A slip: { globalNote: value }, the rest of the record dropped
onlyGlobalNote(parsed, value) == [EmptyObject EXCEPT !.globalNote = value]
\* The record savePageNote stores: pageNotes[String(pageNumber)] = value
withPageNote(parsed, page, value) == [parsed EXCEPT !.pageNotes[page] = value]
\* The record saveGlobalNote stores: { ...parsed, globalNote: value }
withGlobalNote(parsed, value) == [parsed EXCEPT !.globalNote = value]

Parsed(stored) == IF stored.raw = "null" THEN EmptyObject ELSE stored

\* A slip: savePageNote without its `if (!docId) return`
savePageNoteAnyDoc(c, value) ==
    [c EXCEPT !.pageNote = value,
              !.accessed = c.accessed \cup {c.docId},
              !.localStorage[c.docId] =
                  withPageNote(Parsed(c.localStorage[c.docId]), c.pageNumber, value)]

savePageNoteState(c, value) ==
    LET shown == [c EXCEPT !.pageNote = value]
    IN IF c.docId = NoDoc THEN shown
       ELSE LET stored == c.localStorage[c.docId]
                read == [shown EXCEPT !.accessed = c.accessed \cup {c.docId}]
            IN IF stored.raw = "corrupt" THEN read
               ELSE [read EXCEPT !.localStorage[c.docId] =
                        withPageNote(Parsed(stored), c.pageNumber, value)]

saveGlobalNoteState(c, value) ==
    LET shown == [c EXCEPT !.globalNote = value]
    IN IF c.docId = NoDoc THEN shown
       ELSE LET stored == c.localStorage[c.docId]
                read == [shown EXCEPT !.accessed = c.accessed \cup {c.docId}]
            IN IF stored.raw = "corrupt" THEN read
               ELSE [read EXCEPT !.localStorage[c.docId] =
                        withGlobalNote(Parsed(stored), value)]

\* savePageNote(value): the page note field changed
savePageNote(value) ==
    /\ Becomes(Settle(savePageNoteState(Current, value), FALSE))
    /\ used' = [used EXCEPT !.edits = @ + 1]
    /\ UNCHANGED <<scale, objectURLs, imageMeta, imageBlobs, docLoad, clock, navigated>>

\* saveGlobalNote(value): the global note field changed
saveGlobalNote(value) ==
    /\ Becomes(Settle(saveGlobalNoteState(Current, value), FALSE))
    /\ used' = [used EXCEPT !.edits = @ + 1]
    /\ UNCHANGED <<scale, objectURLs, imageMeta, imageBlobs, docLoad, clock, navigated>>

(***************************************************************************)
(* The page is reloaded: the component is mounted anew, the work in flight *)
(* is gone, the stores keep what they hold.                                *)
(***************************************************************************)
Remount ==
    /\ source' = EmptySource
    /\ numPages' = 0
    /\ pageNumber' = 1
    /\ error' = ""
    /\ docId' = NoDoc
    /\ pageNote' = <<>>
    /\ globalNote' = <<>>
    /\ images' = <<>>
    /\ resolving' = EmptyBag
    /\ docLoad' = "none"
    /\ tasks' = EmptyBag
    /\ scale' = InitialScale
    /\ objectURLs' = {}
    /\ restored' = 0
    /\ navigated' = FALSE
    /\ used' = [used EXCEPT !.reloads = @ + 1]
    /\ UNCHANGED <<localStorage, imageMeta, imageBlobs, clock, accessed>>

(***************************************************************************)
(* Image attachments (localforage).                                        *)
(***************************************************************************)
\* URL.createObjectURL(blob)
ObjectURL(bytes) == <<"blob:", bytes>>
Shown(item, bytes) ==
    [id |-> item.id, page |-> item.page, caption |-> item.caption, url |-> ObjectURL(bytes)]

\* (await localforage.getItem(metaKey)) ?? { items: [] }
ItemsOf(d) == imageMeta[d].items
\* localforage.getItem(`pdf:${docId}:image:${id}`)
BlobsAt(d, id) == {b \in imageBlobs : b.docId = d /\ b.id = id}

RECURSIVE Without(_, _)
\* items.filter((i) => i.id !== id)
Without(items, id) ==
    IF items = <<>> THEN <<>>
    ELSE IF Head(items).id = id THEN Without(Tail(items), id)
         ELSE <<Head(items)>> \o Without(Tail(items), id)

\* Tasks that update the metadata list of document d.
Writers(d) == {t \in BagToSet(tasks) : t.op \in {"add", "remove"} /\ t.docId = d}
\* The bag of tasks once task `new` on document d has started: the writers
\* of d it overlaps are no longer alone.
Started(new) ==
    LET others == Writers(new.docId)
        kept == tasks (-) [t \in others |-> CopiesIn(t, tasks)]
        marked == [t \in {[o EXCEPT !.alone = FALSE] : o \in others} |->
                      LET src == {o \in others : [o EXCEPT !.alone = FALSE] = t}
                      IN BagCardinality([o \in src |-> CopiesIn(o, tasks)])]
    IN (kept (+) marked) (+) SetToBag({new})
Replaced(t, u) == (tasks (-) SetToBag({t})) (+) SetToBag({u})
Ended(t) == tasks (-) SetToBag({t})

\* addImage(file, caption), to its first await
addImage(file, caption) ==
    IF docId = NoDoc
    THEN /\ used' = [used EXCEPT !.adds = @ + 1]
         /\ UNCHANGED <<scale, objectURLs,
                        source, numPages, pageNumber, error, docId, pageNote,
                        globalNote, images, localStorage, imageMeta, imageBlobs,
                        resolving, docLoad, tasks, clock, accessed, restored, navigated>>
    ELSE /\ tasks' = Started(
                [op |-> "add", docId |-> docId, pc |-> "hash",
                 item |-> [id |-> <<>>, page |-> pageNumber, caption |-> caption],
                 bytes |-> file.bytes, type |-> file.type, todo |-> <<>>,
                 loaded |-> <<>>, wroteBlob |-> FALSE, wroteMeta |-> FALSE,
                 alone |-> Writers(docId) = {}, before |-> ItemsOf(docId)])
         /\ BagCardinality(tasks') <= MaxTasks
         /\ used' = [used EXCEPT !.adds = @ + 1]
         /\ UNCHANGED <<scale, objectURLs,
                        source, numPages, pageNumber, error, docId, pageNote,
                        globalNote, images, localStorage, imageMeta, imageBlobs,
                        resolving, docLoad, clock, accessed, restored, navigated>>

\* ImageUploader.handleFiles(files) with the caption field holding `caption`
handleFiles(files, caption) ==
    IF files = <<>> \/ files[1].type \notin {"image/png"}
    THEN UNCHANGED vars
    ELSE addImage(files[1], Trim(caption))

\* addImage: the digest is there; the id is stamped with Date.now(), which has
\* advanced or not since the last stamp; the metadata list is read
addImageRead(t, now) ==
    /\ t.op = "add" /\ t.pc = "hash"
    /\ clock' = now
    /\ tasks' = Replaced(t, [t EXCEPT !.pc = "write",
                                     !.item.id = <<Sha256Hex(t.bytes), now>>,
                                     !.todo = ItemsOf(t.docId)])
    /\ accessed' = accessed \cup {t.docId}
    /\ UNCHANGED <<scale, objectURLs,
                   source, numPages, pageNumber, error, docId, pageNote, globalNote,
                   images, localStorage, imageMeta, imageBlobs, resolving, docLoad,
                   restored, navigated, used>>

\* addImage: localforage.setItem(`pdf:${docId}:image:${id}`, blob) completes
addImageWriteBlob(t) ==
    /\ t.op = "add" /\ t.pc \in {"write", "metaFailed"} /\ ~t.wroteBlob
    /\ imageBlobs' = (imageBlobs \ BlobsAt(t.docId, t.item.id))
                        \cup {[docId |-> t.docId, id |-> t.item.id,
                               bytes |-> t.bytes, type |-> t.type]}
    /\ tasks' = Replaced(t, [t EXCEPT !.wroteBlob = TRUE])
    /\ accessed' = accessed \cup {t.docId}
    /\ UNCHANGED <<scale, objectURLs,
                   source, numPages, pageNumber, error, docId, pageNote, globalNote,
                   images, localStorage, imageMeta, resolving, docLoad, clock,
                   restored, navigated, used>>

\* A slip: { items: [...prev.items, item] }, oldest first
withItemLast(item, prevItems) == prevItems \o <<item>>
\* The list addImage stores: { items: [item, ...prev.items] }
withItem(item, prevItems) == <<item>> \o prevItems

\* A variant: the list is read anew at the write, so no entry written since
\* the read of `prev` is dropped
addImageWriteMetaMerged(t) ==
    /\ t.op = "add" /\ t.pc \in {"write", "blobFailed"} /\ ~t.wroteMeta
    /\ imageMeta' = [imageMeta EXCEPT ![t.docId] =
                        [present |-> TRUE, items |-> <<t.item>> \o ItemsOf(t.docId)]]
    /\ tasks' = Replaced(t, [t EXCEPT !.wroteMeta = TRUE])
    /\ accessed' = accessed \cup {t.docId}
    /\ UNCHANGED <<scale, objectURLs, source, numPages, pageNumber, error, docId,
                   pageNote, globalNote, images, localStorage, imageBlobs, resolving,
                   docLoad, clock, restored, navigated, used>>

\* addImage: localforage.setItem(metaKey, { items: [item, ...prev.items] }) completes
addImageWriteMeta(t) ==
    /\ t.op = "add" /\ t.pc \in {"write", "blobFailed"} /\ ~t.wroteMeta
    /\ imageMeta' = [imageMeta EXCEPT ![t.docId] =
                        [present |-> TRUE, items |-> withItem(t.item, t.todo)]]
    /\ tasks' = Replaced(t, [t EXCEPT !.wroteMeta = TRUE])
    /\ accessed' = accessed \cup {t.docId}
    /\ UNCHANGED <<scale, objectURLs,
                   source, numPages, pageNumber, error, docId, pageNote, globalNote,
                   images, localStorage, imageBlobs, resolving, docLoad, clock,
                   restored, navigated, used>>

\* A slip: Promise.any, the first write to succeed is enough
EitherWritten(t) ==
    t.pc \in {"write", "blobFailed", "metaFailed"} /\ (t.wroteBlob \/ t.wroteMeta)
\* await Promise.all([setItem(image key, blob), setItem(metaKey, ...)]) returns
BothWritten(t) == t.pc = "write" /\ t.wroteBlob /\ t.wroteMeta

\* addImage: the payload write is rejected (the quota is exceeded, say);
\* Promise.all rejects, the other write still runs
addImageWriteBlobFailed(t) ==
    /\ t.op = "add" /\ t.pc = "write" /\ ~t.wroteBlob
    /\ tasks' = Replaced(t, [t EXCEPT !.pc = "blobFailed"])
    /\ UNCHANGED <<scale, objectURLs, source, numPages, pageNumber, error, docId,
                   pageNote, globalNote, images, localStorage, imageMeta, imageBlobs,
                   resolving, docLoad, clock, accessed, restored, navigated, used>>

\* addImage: the metadata-list write is rejected
addImageWriteMetaFailed(t) ==
    /\ t.op = "add" /\ t.pc = "write" /\ ~t.wroteMeta
    /\ tasks' = Replaced(t, [t EXCEPT !.pc = "metaFailed"])
    /\ UNCHANGED <<scale, objectURLs, source, numPages, pageNumber, error, docId,
                   pageNote, globalNote, images, localStorage, imageMeta, imageBlobs,
                   resolving, docLoad, clock, accessed, restored, navigated, used>>

\* addImage: the rejection of Promise.all is thrown out of addImage, past
\* createObjectURL and setImages; a write still pending then is not followed
addImageRejected(t) ==
    /\ t.op = "add" /\ t.pc \in {"blobFailed", "metaFailed"}
    /\ tasks' = Ended(t)
    /\ UNCHANGED <<scale, objectURLs, source, numPages, pageNumber, error, docId,
                   pageNote, globalNote, images, localStorage, imageMeta, imageBlobs,
                   resolving, docLoad, clock, accessed, restored, navigated, used>>

\* addImage after Promise.all: setImages((imgs) => [{ ...item, url }, ...imgs])
addImageDone(t) ==
    /\ t.op = "add" /\ BothWritten(t)
    /\ objectURLs' = objectURLs \cup {t.item.id}
    /\ images' = <<Shown(t.item, t.bytes)>> \o images
    /\ tasks' = Ended(t)
    /\ UNCHANGED <<scale,
                   source, numPages, pageNumber, error, docId, pageNote, globalNote,
                   localStorage, imageMeta, imageBlobs, resolving, docLoad, clock,
                   accessed, restored, navigated, used>>

\* removeImage(id), to its first await: the "Remover" button of a shown image
removeImage(id) ==
    IF docId = NoDoc
    THEN /\ used' = [used EXCEPT !.removes = @ + 1]
         /\ UNCHANGED <<scale, objectURLs,
                        source, numPages, pageNumber, error, docId, pageNote,
                        globalNote, images, localStorage, imageMeta, imageBlobs,
                        resolving, docLoad, tasks, clock, accessed, restored, navigated>>
    ELSE /\ tasks' = Started(
                [op |-> "remove", docId |-> docId, pc |-> "read",
                 item |-> [id |-> id, page |-> 0, caption |-> <<>>],
                 bytes |-> "", type |-> "", todo |-> <<>>, loaded |-> <<>>,
                 wroteBlob |-> FALSE, wroteMeta |-> FALSE,
                 alone |-> Writers(docId) = {}, before |-> ItemsOf(docId)])
         /\ BagCardinality(tasks') <= MaxTasks
         /\ used' = [used EXCEPT !.removes = @ + 1]
         /\ UNCHANGED <<scale, objectURLs,
                        source, numPages, pageNumber, error, docId, pageNote,
                        globalNote, images, localStorage, imageMeta, imageBlobs,
                        resolving, docLoad, clock, accessed, restored, navigated>>

\* removeImage: the metadata list is read and filtered
removeImageRead(t) ==
    /\ t.op = "remove" /\ t.pc = "read"
    /\ tasks' = Replaced(t, [t EXCEPT !.pc = "write",
                                     !.todo = Without(ItemsOf(t.docId), t.item.id)])
    /\ accessed' = accessed \cup {t.docId}
    /\ UNCHANGED <<scale, objectURLs,
                   source, numPages, pageNumber, error, docId, pageNote, globalNote,
                   images, localStorage, imageMeta, imageBlobs, resolving, docLoad,
                   clock, restored, navigated, used>>

\* removeImage: localforage.removeItem(`pdf:${docId}:image:${id}`) completes
removeImageDeleteBlob(t) ==
    /\ t.op = "remove" /\ t.pc = "write" /\ ~t.wroteBlob
    /\ imageBlobs' = imageBlobs \ BlobsAt(t.docId, t.item.id)
    /\ tasks' = Replaced(t, [t EXCEPT !.wroteBlob = TRUE])
    /\ accessed' = accessed \cup {t.docId}
    /\ UNCHANGED <<scale, objectURLs,
                   source, numPages, pageNumber, error, docId, pageNote, globalNote,
                   images, localStorage, imageMeta, resolving, docLoad, clock,
                   restored, navigated, used>>

\* removeImage: localforage.setItem(metaKey, { items: nextItems }) completes
removeImageWriteMeta(t) ==
    /\ t.op = "remove" /\ t.pc = "write" /\ ~t.wroteMeta
    /\ imageMeta' = [imageMeta EXCEPT ![t.docId] = [present |-> TRUE, items |-> t.todo]]
    /\ tasks' = Replaced(t, [t EXCEPT !.wroteMeta = TRUE])
    /\ accessed' = accessed \cup {t.docId}
    /\ UNCHANGED <<scale, objectURLs,
                   source, numPages, pageNumber, error, docId, pageNote, globalNote,
                   images, localStorage, imageBlobs, resolving, docLoad, clock,
                   restored, navigated, used>>

\* removeImage after Promise.all: setImages((imgs) => imgs.filter((i) => i.id !== id))
removeImageDone(t) ==
    /\ t.op = "remove" /\ t.pc = "write" /\ t.wroteBlob /\ t.wroteMeta
    /\ images' = Without(images, t.item.id)
    /\ tasks' = Ended(t)
    /\ UNCHANGED <<scale, objectURLs,
                   source, numPages, pageNumber, error, docId, pageNote, globalNote,
                   localStorage, imageMeta, imageBlobs, resolving, docLoad, clock,
                   accessed, restored, navigated, used>>

\* loadImages: the metadata list is read; with no item to load, setImages([])
loadImagesMeta(t) ==
    /\ t.op = "load" /\ t.pc = "meta"
    /\ IF ItemsOf(t.docId) = <<>>
       THEN /\ images' = <<>>
            /\ tasks' = Ended(t)
       ELSE /\ images' = images
            /\ tasks' = Replaced(t, [t EXCEPT !.pc = "blobs", !.todo = ItemsOf(t.docId)])
    /\ accessed' = accessed \cup {t.docId}
    /\ UNCHANGED <<scale, objectURLs,
                   source, numPages, pageNumber, error, docId, pageNote, globalNote,
                   localStorage, imageMeta, imageBlobs, resolving, docLoad, clock,
                   restored, navigated, used>>

\* loadImages: the payload of the next item is read and, when it is there,
\* the item is collected; after the last item, setImages(loaded)
loadImagesBlob(t) ==
    /\ t.op = "load" /\ t.pc = "blobs"
    /\ LET item == Head(t.todo)
           found == BlobsAt(t.docId, item.id)
           loaded == IF found = {} THEN t.loaded
                     ELSE t.loaded \o <<Shown(item, (CHOOSE b \in found : TRUE).bytes)>>
       IN IF Tail(t.todo) = <<>>
          THEN /\ images' = loaded
               /\ tasks' = Ended(t)
          ELSE /\ images' = images
               /\ tasks' = Replaced(t, [t EXCEPT !.todo = Tail(t.todo), !.loaded = loaded])
    /\ objectURLs' = IF BlobsAt(t.docId, Head(t.todo).id) = {} THEN objectURLs
                     ELSE objectURLs \cup {Head(t.todo).id}
    /\ accessed' = accessed \cup {t.docId}
    /\ UNCHANGED <<scale,
                   source, numPages, pageNumber, error, docId, pageNote, globalNote,
                   localStorage, imageMeta, imageBlobs, resolving, docLoad, clock,
                   restored, navigated, used>>

(***************************************************************************)
(* Zoom.  The state holds the double nearest to k/100, named by k; s + 0.1 *)
(* and s - 0.1 are off the exact sum by a rounding error far below half a  *)
(* hundredth, which toFixed(2) rounds away.                                *)
(***************************************************************************)
RoundingErrors == (0 - MaxError)..MaxError
\* s + d as the floating-point unit gives it, in parts of a hundredth
FloatSum(s, d, e) == (s + d) * FineUnits + e
\* A slip: the digits after the second decimal cut off, not rounded
Truncated2(t) == t \div FineUnits
\* parseFloat(x.toFixed(2)): x rounded to the nearest hundredth
ToFixed2(t) == (t + FineUnits \div 2) \div FineUnits

\* (s) => Math.max(0.5, parseFloat((s - 0.1).toFixed(2)))
zoomOutOf(s, e) == Max(MinScale, ToFixed2(FloatSum(s, 0 - ZoomStep, e)))
\* (s) => Math.min(3, parseFloat((s + 0.1).toFixed(2)))
zoomInOf(s, e) == Min(MaxScale, ToFixed2(FloatSum(s, ZoomStep, e)))

\* The "-" button
zoomOut ==
    /\ \E e \in RoundingErrors : scale' = zoomOutOf(scale, e)
    /\ UNCHANGED <<source, numPages, pageNumber, error, docId, pageNote, globalNote,
                   images, localStorage, imageMeta, imageBlobs, resolving, docLoad,
                   tasks, clock, objectURLs, accessed, restored, navigated, used>>

\* The "+" button
zoomIn ==
    /\ \E e \in RoundingErrors : scale' = zoomInOf(scale, e)
    /\ UNCHANGED <<source, numPages, pageNumber, error, docId, pageNote, globalNote,
                   images, localStorage, imageMeta, imageBlobs, resolving, docLoad,
                   tasks, clock, objectURLs, accessed, restored, navigated, used>>

(***************************************************************************)
(* Next-state relations.                                                   *)
(***************************************************************************)
Drops == {<<>>} \cup {<<f>> : f \in PdfFiles}
ShownIds == {images[i].id : i \in 1..Len(images)}

\* The continuations of the awaits of the image store.
ImageSteps ==
    \E t \in BagToSet(tasks) :
        \/ \E now \in {clock, clock + 1} : addImageRead(t, now)
        \/ addImageWriteBlob(t)
        \/ addImageWriteMeta(t)
        \/ addImageDone(t)
        \/ removeImageRead(t)
        \/ removeImageDeleteBlob(t)
        \/ removeImageWriteMeta(t)
        \/ removeImageDone(t)
        \/ loadImagesMeta(t)
        \/ loadImagesBlob(t)

Picked == {<<>>} \cup {<<f>> : f \in ImageFiles}
FileA == CHOOSE f \in PdfFiles : f.bytes = "A"

\* The user selects a source: a drop, or text entered in the URL field.
Selecting(drops, inputs, budget) ==
    \/ used.select < budget /\ \E fs \in drops : onDrop(fs)
    \/ \E input \in inputs :
          (Accepted(input) => used.select < budget) /\ loadFromUrl(input)
Resolved(outcomes) ==
    \E src \in BagToSet(resolving), hashed \in outcomes : computeIdResolved(src, hashed)
Navigating == previousPage \/ nextPage
Editing(budget) ==
    /\ used.edits < budget
    /\ \/ \E value \in Texts : savePageNote(value)
       \/ \E value \in Texts : saveGlobalNote(value)
Attaching(adds, removes) ==
    \/ used.adds < adds /\ \E fs \in Picked, caption \in Captions : handleFiles(fs, caption)
    \/ used.removes < removes /\ \E id \in ShownIds : removeImage(id)
Reloading == used.reloads < MaxReloads /\ Remount

\* Identity and navigation: both files, hashing may fail, the page may reload.
Next ==
    \/ Selecting(Drops, {GoodUrl}, MaxSelect)
    \/ Resolved(BOOLEAN)
    \/ onDocumentLoadSuccess
    \/ Navigating
    \/ Reloading
    \/ ImageSteps
Spec == Init /\ [][Next]_vars

\* The URL field: every input, and documents that fail to load.
NextUrl ==
    \/ Selecting(Drops, UrlInputs, MaxSwitch)
    \/ Resolved({TRUE})
    \/ onDocumentLoadSuccess
    \/ onLoadError
    \/ Navigating
    \/ Reloading
    \/ ImageSteps
SpecUrl == Init /\ [][NextUrl]_vars

\* Notes and progress.
NextNotes ==
    \/ Selecting(Drops, {GoodUrl}, MaxSwitch)
    \/ Resolved({TRUE})
    \/ onDocumentLoadSuccess
    \/ Navigating
    \/ Editing(MaxEdits)
    \/ ImageSteps
SpecNotes == Init /\ [][NextNotes]_vars

\* Image attachments of one document, on any of its pages.
NextImages ==
    \/ Selecting({<<FileA>>}, {GoodUrl}, Once)
    \/ Resolved({TRUE})
    \/ onDocumentLoadSuccess
    \/ Navigating
    \/ Attaching(MaxAdds, MaxRemoves)
    \/ ImageSteps
SpecImages == Init /\ [][NextImages]_vars

\* Image attachments while the document is switched.
NextSwitch ==
    \/ Selecting({<<FileA>>}, {GoodUrl}, MaxSwitch)
    \/ Resolved({TRUE})
    \/ Attaching(MaxAdds, MaxRemoves)
    \/ ImageSteps
SpecSwitch == Init /\ [][NextSwitch]_vars

\* Every operation, once, and a reload of the page.
NextAll ==
    \/ Selecting({<<FileA>>}, {GoodUrl}, Once)
    \/ Resolved({TRUE})
    \/ onDocumentLoadSuccess
    \/ Navigating
    \/ Editing(Once)
    \/ Attaching(Once, Once)
    \/ Reloading
    \/ ImageSteps
SpecAll == Init /\ [][NextAll]_vars

\* Notes and progress over a store in which the record of the URL's document
\* is not parseable (written by something other than this component).
CorruptRecord == [AbsentRecord EXCEPT !.raw = "corrupt"]
InitCorrupt ==
    /\ source = EmptySource
    /\ numPages = 0
    /\ pageNumber = 1
    /\ error = ""
    /\ docId = NoDoc
    /\ pageNote = <<>>
    /\ globalNote = <<>>
    /\ images = <<>>
    /\ localStorage = [d \in DocIds |->
                          IF d = UrlId(GoodUrl) THEN CorruptRecord ELSE AbsentRecord]
    /\ imageMeta = [d \in DocIds |-> NoImages]
    /\ imageBlobs = {}
    /\ resolving = EmptyBag
    /\ docLoad = "none"
    /\ tasks = EmptyBag
    /\ clock = 0
    /\ scale = InitialScale
    /\ objectURLs = {}
    /\ accessed = {}
    /\ restored = 0
    /\ navigated = FALSE
    /\ used = [select |-> 0, edits |-> 0, adds |-> 0, removes |-> 0, reloads |-> 0]
SpecCorrupt == InitCorrupt /\ [][NextNotes]_vars

\* Zoom while a document is opened, read and reloaded.
NextZoom ==
    \/ zoomOut
    \/ zoomIn
    \/ Selecting({<<FileA>>}, {GoodUrl}, Once)
    \/ Resolved({TRUE})
    \/ onDocumentLoadSuccess
    \/ Navigating
    \/ Reloading
    \/ ImageSteps
SpecZoom == Init /\ [][NextZoom]_vars

\* The writes of addImage that the store rejects.
ImageFailures ==
    \E t \in BagToSet(tasks) :
        \/ addImageWriteBlobFailed(t)
        \/ addImageWriteMetaFailed(t)
        \/ addImageRejected(t)

\* Image attachments over a store that can reject a write.
NextFail ==
    \/ Selecting({<<FileA>>}, {GoodUrl}, Once)
    \/ Resolved({TRUE})
    \/ onDocumentLoadSuccess
    \/ Navigating
    \/ Attaching(Once, MaxRemoves)
    \/ ImageSteps
    \/ ImageFailures
SpecFail == Init /\ [][NextFail]_vars

(***************************************************************************)
(* Properties.                                                             *)
(***************************************************************************)
\* The identifiers computeId can give a source.
IdsOf(src) ==
    CASE src.kind = "url" -> {UrlId(src.url)}
      [] src.kind = "file" -> {FileId(Sha256Hex(src.file.bytes)), FallbackId(src.file.name)}
      [] OTHER -> {NoDoc}

\* C1: once every identity resolution in flight has completed, docId is the
\* identifier of the source selected last (so what is displayed is read from
\* that source's records): a late resolution of an earlier source never
\* overwrites it.
C1_LatestSourceWins ==
    resolving = EmptyBag => docId \in IdsOf(source)

\* C2: when the identity changed to a docId whose record holds lastPage = k,
\* then, with no page button clicked since the selection, once the identity
\* has resolved and the load-success callback has fired the displayed page is
\* k and the persisted lastPage is still k.
C2_RestoredPageKept ==
    (/\ restored # 0
     /\ ~navigated
     /\ resolving = EmptyBag
     /\ docId \in IdsOf(source)
     /\ docLoad = "loaded")
    => /\ pageNumber = restored
       /\ localStorage[docId].lastPage = restored

\* C10: whenever numPages is known the displayed page is within
\* [1, numPages], and every persisted lastPage is an integer >= 1.
C10_PageWithinDocument ==
    /\ numPages # 0 => (1 <= pageNumber /\ pageNumber <= numPages)
    /\ \A d \in DocIds : localStorage[d].raw = "json" => localStorage[d].lastPage >= 1

\* Record d keeps its notes over a step.
NotesKept(d) ==
    /\ localStorage'[d].globalNote = localStorage[d].globalNote
    /\ localStorage'[d].pageNotes = localStorage[d].pageNotes

\* C3: the lastPage write (any step but a note edit: the effect runs when
\* docId or pageNumber changed) leaves globalNote and every entry of pageNotes
\* of every record as they were, and leaves lastPage = the displayed page in
\* the record of a non-empty docId; an absent record becomes one that holds
\* lastPage only.
C3_LastPageWrite ==
    [][used'.edits = used.edits =>
        /\ \A d \in DocIds : NotesKept(d)
        /\ (/\ docId' # docId \/ pageNumber' # pageNumber
            /\ docId' # NoDoc
            /\ localStorage[docId'].raw # "corrupt")
           => /\ localStorage'[docId'].raw = "json"
              /\ localStorage'[docId'].lastPage = pageNumber'
              /\ localStorage[docId'].raw = "null" =>
                    /\ localStorage'[docId'].globalNote = Undefined
                    /\ \A p \in Pages : localStorage'[docId'].pageNotes[p] = Undefined]_vars

\* A record holds a page note and a global note, and lastPage was written
\* after them.
C3_Witness ==
    \E d \in DocIds :
        /\ localStorage[d].lastPage = 2
        /\ localStorage[d].pageNotes[1] = <<"x">>
        /\ localStorage[d].globalNote = <<"y">>

\* C4: savePageNote(text) on page p of a non-empty docId sets pageNotes[p] to
\* text and leaves lastPage, globalNote, the notes of every other page and
\* every other record unchanged.
C4_PageNoteWrite ==
    [][\A value \in Texts :
        (savePageNote(value) /\ docId # NoDoc /\ localStorage[docId].raw # "corrupt") =>
            /\ localStorage'[docId].raw = "json"
            /\ localStorage'[docId].pageNotes[pageNumber] = value
            /\ \A p \in Pages \ {pageNumber} :
                  localStorage'[docId].pageNotes[p] = localStorage[docId].pageNotes[p]
            /\ localStorage'[docId].lastPage = localStorage[docId].lastPage
            /\ localStorage'[docId].globalNote = localStorage[docId].globalNote
            /\ \A d \in DocIds \ {docId} : localStorage'[d] = localStorage[d]]_vars

\* A record holds the notes of two pages at the same time.
C4_Witness ==
    \E d \in DocIds :
        /\ localStorage[d].pageNotes[1] = <<"x">>
        /\ localStorage[d].pageNotes[2] = <<"y">>

\* C5: saveGlobalNote(text) on a non-empty docId sets globalNote to text and
\* leaves lastPage, every entry of pageNotes and every other record unchanged.
C5_GlobalNoteWrite ==
    [][\A value \in Texts :
        (saveGlobalNote(value) /\ docId # NoDoc /\ localStorage[docId].raw # "corrupt") =>
            /\ localStorage'[docId].raw = "json"
            /\ localStorage'[docId].globalNote = value
            /\ localStorage'[docId].pageNotes = localStorage[docId].pageNotes
            /\ localStorage'[docId].lastPage = localStorage[docId].lastPage
            /\ \A d \in DocIds \ {docId} : localStorage'[d] = localStorage[d]]_vars

\* A global note was saved in a record that holds a page note and a lastPage.
C5_Witness ==
    \E d \in DocIds :
        /\ localStorage[d].globalNote = <<"x">>
        /\ localStorage[d].pageNotes[2] = <<"y">>
        /\ localStorage[d].lastPage = 2
        /\ globalNote = <<"x">>
        /\ docId = d

\* C6: while docId is empty no operation reads or writes a store: every step
\* that starts and ends with the empty docId (the effects, savePageNote,
\* saveGlobalNote, addImage, removeImage) leaves localStorage and both
\* localforage tables as they were and touches no key, and no key of the
\* empty docId is ever read or written.
C6_NoDocNoAccess ==
    /\ [](NoDoc \notin accessed)
    /\ [][(docId = NoDoc /\ docId' = NoDoc) =>
            UNCHANGED <<localStorage, imageMeta, imageBlobs, accessed>>]_vars

\* With records and attachments in the stores and no document open, a page
\* note was typed and an image was picked.
C6_Witness ==
    /\ docId = NoDoc
    /\ used.reloads = 1
    /\ pageNote = <<"x">>
    /\ used.adds = 1
    /\ tasks = EmptyBag
    /\ \E d \in DocIds : localStorage[d].lastPage = 2
    /\ \A d \in DocIds : imageMeta[d] = NoImages

\* C7: addImage(file, caption) on a non-empty docId makes the item
\* {id, page = the page displayed at the call, caption}; when it completes
\* with no other add or remove on that docId in flight during the call, the
\* persisted list is the list as it was at the call with the item prepended,
\* the payload is stored under the item's id, and the in-memory list is the
\* one before with the item at its head; so an empty list becomes a list of
\* exactly that entry.
C7_AddPrepends ==
    [][/\ \A f \in ImageFiles, caption \in Captions :
            (addImage(f, caption) /\ docId # NoDoc) =>
                \E t \in BagToSet(tasks') :
                    /\ CopiesIn(t, tasks') > CopiesIn(t, tasks)
                    /\ t.op = "add" /\ t.docId = docId
                    /\ t.item.page = pageNumber /\ t.item.caption = caption
                    /\ t.bytes = f.bytes /\ t.before = imageMeta[docId].items
       /\ \A t \in BagToSet(tasks) :
            (addImageDone(t) /\ t.alone) =>
                /\ imageMeta'[t.docId].items = <<t.item>> \o t.before
                /\ t.before = <<>> => Len(imageMeta'[t.docId].items) = 1
                /\ {b \in imageBlobs' : b.docId = t.docId /\ b.id = t.item.id}
                      = {[docId |-> t.docId, id |-> t.item.id,
                          bytes |-> t.bytes, type |-> t.type]}
                /\ Len(images') = Len(images) + 1
                /\ Tail(images') = images
                /\ Head(images').id = t.item.id
                /\ Head(images').page = t.item.page
                /\ Head(images').caption = t.item.caption]_vars

\* Two images were added one after the other, the second on page 2 with the
\* caption trimmed: it is first in the persisted list and in the one shown.
C7_Witness ==
    /\ tasks = EmptyBag
    /\ used.adds = 2
    /\ Len(imageMeta[docId].items) = 2
    /\ imageMeta[docId].items[1].page = 2
    /\ imageMeta[docId].items[1].caption = <<"cat">>
    /\ imageMeta[docId].items[2].page = 1
    /\ Len(images) = 2
    /\ \A i \in 1..2 : images[i].id = imageMeta[docId].items[i].id
    /\ images[1].page = 2
    /\ \A i \in 1..2 : \E b \in imageBlobs :
            b.docId = docId /\ b.id = imageMeta[docId].items[i].id

\* The entries of a list whose id is not `id`, in their order.
Others(items, id) == SelectSeq(items, LAMBDA i : i.id # id)
IdsIn(items) == {items[i].id : i \in 1..Len(items)}

\* C8 as stated: removeImage(id) on a non-empty docId leaves no payload and
\* no metadata entry for id and keeps every other attachment's metadata,
\* payload and order (each of its writes keeps what the store holds for the
\* others); when id is not in the document's list, the persisted list, the
\* payloads and the in-memory list are unchanged.
C8_RemoveKeepsOthers ==
    [][\A t \in BagToSet(tasks) :
        /\ removeImageWriteMeta(t) =>
              /\ imageMeta'[t.docId].items = Others(imageMeta[t.docId].items, t.item.id)
              /\ \A d \in DocIds \ {t.docId} : imageMeta'[d] = imageMeta[d]
        /\ removeImageDeleteBlob(t) =>
              imageBlobs' = {b \in imageBlobs : b.docId # t.docId \/ b.id # t.item.id}
        /\ removeImageDone(t) =>
              /\ t.item.id \notin IdsIn(imageMeta'[t.docId].items)
              /\ \A b \in imageBlobs' : b.docId # t.docId \/ b.id # t.item.id
              /\ t.item.id \notin IdsIn(t.before) =>
                    /\ imageMeta'[t.docId].items = t.before
                    /\ images' = images]_vars

\* The inputs of the URL field by what they are: blank, no URL, a URL whose
\* path does not end in .pdf, a URL whose path does (after trimming).
BlankInputs == {<<>>, <<Blank>>}
NoUrlInputs == {<<"not", Blank, "a", Blank, "url">>}
NoPdfInputs ==
    {<<"https://", "example.com", "/book">>,
     <<"https://", "example.com", "/book", ".pdf", ".html">>}
PdfUrlOf(input) ==
    IF input = <<Blank>> \o GoodUrl \o <<Blank>> THEN GoodUrl ELSE input

\* C9 as stated: an input that does not parse as a URL, or whose path does
\* not end in .pdf, sets an error message and leaves source, docId, the page
\* number and both stores unchanged; an input that parses with a path ending
\* in .pdf replaces the source, clears the error and sets the page number
\* to 1.
C9_UrlValidation ==
    [][\A input \in UrlInputs :
        loadFromUrl(input) =>
            IF input \in BlankInputs \cup NoUrlInputs \cup NoPdfInputs
            THEN /\ error' \in {UrlInvalid, NotAPdf}
                 /\ UNCHANGED <<source, docId, pageNumber, localStorage,
                                imageMeta, imageBlobs>>
            ELSE /\ source' = UrlSource(PdfUrlOf(input))
                 /\ error' = ""
                 /\ pageNumber' = 1]_vars

\* C9, amended: a blank input changes nothing (no message); a non-blank
\* input that does not parse as a URL sets "URL invalida.", one that parses
\* with a path not ending in .pdf (in any letter case) sets the not-a-PDF
\* message, and both leave source, docId, the page number and both stores
\* unchanged; an input that parses with a path ending in .pdf replaces the
\* source with the trimmed URL, clears the error, makes docId the URL's
\* identifier and sets the page number to 1, after which, when docId changed
\* and the URL's record holds a lastPage, the page number is that lastPage.
C9_UrlValidationRestoring ==
    [][\A input \in UrlInputs :
        loadFromUrl(input) =>
            CASE input \in BlankInputs -> UNCHANGED vars
              [] input \in NoUrlInputs \cup NoPdfInputs ->
                    /\ error' = IF input \in NoUrlInputs THEN UrlInvalid ELSE NotAPdf
                    /\ UNCHANGED <<source, docId, pageNumber, localStorage,
                                   imageMeta, imageBlobs>>
              [] OTHER ->
                    LET id == UrlId(PdfUrlOf(input))
                    IN /\ source' = UrlSource(PdfUrlOf(input))
                       /\ error' = ""
                       /\ docId' = id
                       /\ pageNumber' =
                             IF docId # id /\ localStorage[id].lastPage # 0
                             THEN localStorage[id].lastPage ELSE 1]_vars

\* The URL was accepted and its record's page 2 shown; an input that is no
\* PDF link then set its message and left the source and the page.
C9_Witness ==
    /\ source = UrlSource(GoodUrl)
    /\ docId = UrlId(GoodUrl)
    /\ error = NotAPdf
    /\ pageNumber = 2
    /\ restored = 2
    /\ ~navigated
    /\ docLoad = "loading"

\* C11: from the selection of a source until the load-success callback for
\* it has fired, the "next page" control is disabled, also when a previous
\* document had reported its page count.
C11_NextDisabledWhileLoading ==
    docLoad = "loading" => ~canNext

\* The non-empty page notes the record of document d holds after a step.
NotesOfRecordAfter(d) ==
    IF d = NoDoc THEN {}
    ELSE {localStorage'[d].pageNotes[p] : p \in Pages} \ {Undefined, <<>>}

\* C12: selecting a new source resets the page-local view: when the identity
\* of the selected source is still to resolve (docId is the previous
\* document's), the displayed page number is 1 and the page note field shows
\* no note of the previous document.
C12_ViewResetOnSelect ==
    [][(used'.select = used.select + 1 /\ docId' \notin IdsOf(source')) =>
            /\ pageNumber' = 1
            /\ pageNote' \notin NotesOfRecordAfter(docId')]_vars

\* C13: when the identity resolves to a docId whose record is not parseable,
\* the record is treated as absent: no error is surfaced and the page note
\* and the global note shown are empty, not those of the document open
\* before.
C13_CorruptAsAbsent ==
    [][(docId' # docId /\ docId' # NoDoc /\ localStorage[docId'].raw = "corrupt") =>
            /\ error' = ""
            /\ pageNote' = <<>>
            /\ globalNote' = <<>>]_vars

\* The scales n zoom-in clicks can give from the scales S.
RECURSIVE ZoomedIn(_, _)
ZoomedIn(n, S) ==
    IF n = 0 THEN S
    ELSE ZoomedIn(n - 1, {zoomInOf(s, e) : s \in S, e \in RoundingErrors})

\* C14: the zoom scale, in hundredths, starts at 120 and stays within
\* [50, 300]; a zoom-in adds exactly 10 unless that passes 300, which it then
\* gives, a zoom-out takes exactly 10 unless that passes 50, which it then
\* gives, and nothing else changes the scale but a reload, which gives 120;
\* so ten zoom-ins from 120 give exactly 220 and a zoom-in at 300 gives 300.
C14_ZoomInHundredths ==
    /\ scale = 120
    /\ [](/\ scale \in 50..300
          /\ ZoomedIn(10, {120}) = {220}
          /\ ZoomedIn(1, {300}) = {300})
    /\ [][/\ zoomIn => scale' = IF scale + 10 > 300 THEN 300 ELSE scale + 10
          /\ zoomOut => scale' = IF scale - 10 < 50 THEN 50 ELSE scale - 10
          /\ ~(zoomIn \/ zoomOut) => scale' \in {scale, 120}]_vars

\* Ten zoom-ins after the start, on page 2 of a loaded document.
C14_Witness ==
    /\ scale = 220
    /\ pageNumber = 2
    /\ docLoad = "loaded"

\* C15: addImage updates the in-memory image list only after both the
\* payload write and the metadata-list write have succeeded: a step in which
\* a write fails, or in which the failure leaves addImage, changes no
\* in-memory list, and a step in which an addImage call ends with its item
\* put at the head of the in-memory list is taken only by a call whose two
\* writes have both been made and neither rejected.
C15_ShownOnlyWhenStored ==
    [][\A t \in BagToSet(tasks) :
        /\ (\/ addImageWriteBlobFailed(t)
            \/ addImageWriteMetaFailed(t)
            \/ addImageRejected(t)) => images' = images
        /\ (/\ t.op = "add"
            /\ tasks' = Ended(t)
            /\ Len(images') = Len(images) + 1
            /\ Tail(images') = images
            /\ Head(images').id = t.item.id) =>
                /\ t.wroteBlob /\ t.wroteMeta
                /\ t.pc \notin {"blobFailed", "metaFailed"}]_vars

\* An addImage ended with its metadata-list write rejected: the payload is
\* stored, no list holds the entry and no image is shown.
C15_Witness ==
    /\ used.adds = 1
    /\ tasks = EmptyBag
    /\ docId # NoDoc
    /\ images = <<>>
    /\ imageBlobs # {}
    /\ \A d \in DocIds : imageMeta[d].items = <<>>

\* C16: two addImage calls on one docId whose read of the metadata list and
\* write of the updated list overlap can lose an update.  The write of each
\* call stores its item before the list the call read, whatever the store
\* holds by then, so what was written since that read is dropped; the state
\* in which both calls have completed, both payloads are stored and the
\* persisted list holds only one of the two items is reached.
C16_LostUpdate ==
    [][\A t \in BagToSet(tasks) :
        addImageWriteMeta(t) => imageMeta'[t.docId].items = <<t.item>> \o t.todo]_vars

\* Both calls have completed and both images are shown, two payloads are
\* stored for the document, and its persisted list has one entry.
C16_Witness ==
    /\ tasks = EmptyBag
    /\ used.adds = 2
    /\ used.removes = 0
    /\ docId # NoDoc
    /\ Len(images) = 2
    /\ images[1].id # images[2].id
    /\ Cardinality({b \in imageBlobs : b.docId = docId}) = 2
    /\ Len(imageMeta[docId].items) = 1

\* C17: every display URL made for an attachment's payload is released when
\* the attachment is removed or the component is torn down: when
\* removeImage(id) completes, no URL made for id is left unrevoked.
C17_DisplayUrlReleased ==
    [][\A t \in BagToSet(tasks) : removeImageDone(t) => t.item.id \notin objectURLs']_vars

\* C18: after a page navigation on a non-empty docId (its record parseable)
\* has settled, docId is the same, the persisted lastPage is the displayed
\* page number and the page note shown is the record's note of that page,
\* or empty when the record has none.
C18_NavigationSettled ==
    [][((nextPage \/ previousPage) /\ docId # NoDoc
            /\ localStorage[docId].raw # "corrupt") =>
        /\ docId' = docId
        /\ pageNumber' # pageNumber
        /\ localStorage'[docId].lastPage = pageNumber'
        /\ pageNote' = IF localStorage'[docId].pageNotes[pageNumber'] = Undefined
                       THEN <<>>
                       ELSE localStorage'[docId].pageNotes[pageNumber']]_vars

\* Notes were typed on pages 1 and 2 and the user is back on page 1: the
\* note of page 1 is shown and lastPage is 1.
C18_Witness ==
    /\ docId # NoDoc
    /\ navigated
    /\ used.edits = 2
    /\ pageNumber = 1
    /\ pageNote = <<"x">>
    /\ localStorage[docId].lastPage = 1
    /\ localStorage[docId].pageNotes[1] = <<"x">>
    /\ localStorage[docId].pageNotes[2] = <<"y">>
    /\ docLoad = "loaded"

\* C19: selecting a new source never changes the persisted record of the
\* document open before: the selection of a source that is another document
\* leaves that record, its lastPage included, as it was.
C19_SelectionKeepsRecord ==
    [][(used'.select = used.select + 1 /\ docId # NoDoc /\ docId \notin IdsOf(source')) =>
            localStorage'[docId] = localStorage[docId]]_vars

\* C20: after the identity has resolved from document A to document B and
\* every image load and add in flight has completed, the global note shown
\* is B's persisted globalNote (empty when B's record has none) and every
\* image in the in-memory list is an attachment stored for B: no global note
\* and no image of A is left on display.
C20_OnlyNewDocumentShown ==
    (/\ docId # NoDoc
     /\ resolving = EmptyBag
     /\ tasks = EmptyBag
     /\ used.removes = 0
     /\ localStorage[docId].raw # "corrupt")
    => /\ globalNote = IF localStorage[docId].globalNote = Undefined THEN <<>>
                       ELSE localStorage[docId].globalNote
       /\ \A i \in 1..Len(images) :
            \E b \in imageBlobs : b.docId = docId /\ b.id = images[i].id

====
